---- MODULE Spec2Model ----
(***************************************************************************)
(* State-machine model of ReinLife's PER-D3QN agent                        *)
(* (src/ReinLife/Models/PERD3QN.py): the prioritized replay buffer, the    *)
(* agent controller (epsilon schedule, learn/train gating, target sync)    *)
(* and the dueling network it drives.                                      *)
(*                                                                         *)
(* Floats are fixed-point integers.  Priorities, rewards, Q-values and     *)
(* beta are counted in hundredths (One = 1.0); epsilon is counted in units *)
(* of 1e-7 (EpsOne = 1.0).                                                 *)
(***************************************************************************)
EXTENDS Integers, Sequences, FiniteSets, TLC

VARIABLES
  buffer,      \* self.buffer: [memory, priorities, pos, beta]
  eval_net,    \* self.eval_net's parameters
  target_net,  \* self.target_net's parameters
  epsilon,     \* self.epsilon
  n_epi,       \* self.n_epi
  training,    \* self.training
  nstores,     \* history: number of store calls so far
  last         \* history: the most recent call, its arguments and its outcome

vars == <<buffer, eval_net, target_net, epsilon, n_epi, training, nstores, last>>

-----------------------------------------------------------------------------
(* Bounds of the model *)

MaxStores == 5       \* store calls per behaviour of the buffer
MaxLearns == 2       \* learn calls per behaviour of the agent
MaxPrio == 2         \* priorities handed to update_priorities: 0 .. MaxPrio * One
MaxEpisode == 290    \* get_action is called with n_epi in 0 .. MaxEpisode
MaxJump == 2         \* ... and at most MaxJump past the last-seen index
MaxRows == 3         \* forward is applied to batches of 1 .. MaxRows observations

(* Constructor arguments of the modelled agent *)

Capacity == 2        \* capacity
BatchSize == 2       \* batch_size
Exploration == 1     \* exploration
SoftUpdateFreq == 2  \* soft_update_freq
TrainFreq == 2       \* train_freq
NumActions == 2      \* output_dim

(* Program constants *)

One == 100           \* the literal 1.0, in hundredths
Beta0 == 40          \* beta = .4
BetaIncrement == 100000  \* beta_increment = 1000
Gamma == 99          \* gamma = 0.99
EpsilonInit == 9000000   \* epsilon = 0.9, in units of 1e-7
EpsilonMin == 500000     \* epsilon_min = 0.05, in units of 1e-7
Decay == 99              \* decay = 0.99, in hundredths
Float32OverflowBelow == 92    \* x ** -1000.4 exceeds the largest float32 for x < 0.92
Float32UnderflowAbove == 110  \* x ** -1000.4 rounds to 0 in float32 for x > 1.10

EpsOne == One * One * One * 10   \* 1.0 in units of 1e-7

-----------------------------------------------------------------------------
(* Transitions handed to store: [observation, action, reward,              *)
(* next_observation, done].  Observations are one-dimensional.             *)

Transition(o, a, r, o2, d) ==
  [observation |-> o, action |-> a, reward |-> r, next_observation |-> o2, done |-> d]

Transitions ==
  { Transition(0, 0, 0, 0, FALSE),      \* an uneventful step in place
    Transition(One, 1, One, 0, TRUE),   \* a rewarded terminal step
    Transition(0, 1, 0, One, FALSE) }

NoTransition == Transition(0, 0, 0, 0, TRUE)

MaxOf(S) == CHOOSE x \in S : \A y \in S : y <= x
MinOf(S) == CHOOSE x \in S : \A y \in S : x <= y

RECURSIVE SumSeq(_)
SumSeq(q) == IF q = <<>> THEN 0 ELSE Head(q) + SumSeq(Tail(q))

RECURSIVE SumOver(_, _)
SumOver(f, S) ==
  IF S = {} THEN 0 ELSE LET x == CHOOSE y \in S : TRUE IN f[x] + SumOver(f, S \ {x})

-----------------------------------------------------------------------------
(* PrioritizedReplayBuffer *)

Slots == 0 .. Capacity - 1

\* __init__
NewBuffer ==
  [memory |-> <<>>, priorities |-> [i \in Slots |-> 0], pos |-> 0, beta |-> Beta0]

\* a store that always assigns the default priority
max_prior_default(b) == One

\* store, line 147: np.max over the whole priority array, 1.0 when memory is empty
max_prior(b) ==
  IF b.memory # <<>> THEN MaxOf({b.priorities[i] : i \in Slots}) ELSE One

\* a store that appends even at capacity
store_append(b, t) ==
  [b EXCEPT !.memory = Append(b.memory, t),
            !.priorities = [b.priorities EXCEPT ![b.pos] = max_prior(b)],
            !.pos = (b.pos + 1) % Capacity]

\* a store that writes the priority at the advanced write pointer
store_priority_at_next(b, t) ==
  LET mp == max_prior(b)
      mem == IF Len(b.memory) < Capacity
               THEN Append(b.memory, t)
               ELSE [b.memory EXCEPT ![b.pos + 1] = t]
  IN  [b EXCEPT !.memory = mem,
                !.priorities = [b.priorities EXCEPT ![(b.pos + 1) % Capacity] = mp],
                !.pos = (b.pos + 1) % Capacity]

\* store
store(b, t) ==
  LET mp == max_prior(b)
      mem == IF Len(b.memory) < Capacity
               THEN Append(b.memory, t)
               ELSE [b.memory EXCEPT ![b.pos + 1] = t]
  IN  [b EXCEPT !.memory = mem,
                !.priorities = [b.priorities EXCEPT ![b.pos] = mp],
                !.pos = (b.pos + 1) % Capacity]

\* sample, lines 158-163: the slots with a non-zero sampling probability.
\* probs = priorities[:len(memory)] ** alpha / sum: a slot's probability is
\* positive exactly when its priority is.
probs_support(b) == {i \in 0 .. Len(b.memory) - 1 : b.priorities[i] > 0}

\* sample, lines 169-170
beta_after(b) == IF b.beta < One THEN b.beta + BetaIncrement ELSE b.beta

\* sample, line 162: probs ** alpha with alpha = .6.  pow_alpha[p] is
\* 2 * p^(3/5) rounded down, for a priority p in hundredths up to 4.0; only
\* quotients of these values are used.
pow_alpha ==
  [p \in 0 .. 4 * One |-> CHOOSE r \in 0 .. 72 : r^5 <= 32 * p^3 /\ 32 * p^3 < (r + 1)^5]

\* sample, lines 158-163 and 168: len(self.memory) * probs[i], in hundredths
scaled_prob(b, i) ==
  LET occupied == 0 .. Len(b.memory) - 1
      powed == [j \in occupied |-> pow_alpha[b.priorities[j]]]
  IN  (Len(b.memory) * powed[i] * One) \div SumOver(powed, occupied)

\* sample, line 168: (len(self.memory) * probs[i]) ** (-beta), a float32.
\* With beta = .4 the power is finite and positive.  With beta = 1000.4 it
\* overflows to inf for a base below Float32OverflowBelow and rounds to 0 for
\* a base above Float32UnderflowAbove.  A finite power is kept as its base x:
\* the smaller the base, the larger the power.
raw_weight(b, i) ==
  LET x == scaled_prob(b, i)
  IN  IF b.beta < One THEN [kind |-> "finite", x |-> x]
      ELSE IF x < Float32OverflowBelow THEN [kind |-> "inf", x |-> 0]
      ELSE IF x > Float32UnderflowAbove THEN [kind |-> "zero", x |-> 0]
      ELSE [kind |-> "finite", x |-> x]

\* sample, line 171: np.max(weights)
largest_weight(raw) ==
  LET kinds == {raw[k].kind : k \in 1 .. Len(raw)}
  IN  IF "inf" \in kinds THEN [kind |-> "inf", x |-> 0]
      ELSE IF "finite" \in kinds
        THEN [kind |-> "finite",
              x |-> MinOf({raw[k].x : k \in {j \in 1 .. Len(raw) : raw[j].kind = "finite"}})]
      ELSE [kind |-> "zero", x |-> 0]

\* sample, lines 171-172: weights / np.max(weights).  A weight comes out as
\* "one" (the largest finite weight over itself), "below_one" (a smaller
\* finite weight over the largest), "zero" (0 or a finite weight over inf,
\* 0 over a finite weight) or "nan" (inf / inf, 0 / 0).
normalized(raw, largest) ==
  IF largest.kind = "inf"
    THEN IF raw.kind = "inf" THEN "nan" ELSE "zero"
  ELSE IF largest.kind = "zero" THEN "nan"
  ELSE IF raw.kind = "zero" THEN "zero"
  ELSE IF raw.x = largest.x THEN "one" ELSE "below_one"

\* sample, lines 168-172: the importance weights of the drawn indices, from
\* the buffer as it is when sample is entered; per_slot holds the power of
\* line 168 for every slot that can be drawn
weights(per_slot, indices) ==
  LET raw == [k \in 1 .. Len(indices) |-> per_slot[indices[k]]]
      largest == largest_weight(raw)
  IN  [k \in 1 .. Len(indices) |-> normalized(raw[k], largest)]

\* sample: the set of its outcomes.  With no stored transition, or with all
\* occupied priorities 0 (probs = 0/0 = NaN), np.random.choice raises before
\* beta is touched; otherwise batch_size indices are drawn with replacement
\* among the slots of positive probability, the weights are computed and
\* beta is advanced.
sample(b, batch_size) ==
  IF probs_support(b) = {}
    THEN {[buffer |-> b, indices |-> <<>>, weights |-> <<>>, raised |-> TRUE]}
    ELSE LET per_slot == [i \in probs_support(b) |-> raw_weight(b, i)]
             advanced == [b EXCEPT !.beta = beta_after(b)]
         IN  {[buffer |-> advanced, indices |-> ix,
               weights |-> weights(per_slot, ix), raised |-> FALSE] :
                ix \in [1 .. batch_size -> probs_support(b)]}

\* an update_priorities in which the first pair of a repeated index wins
RECURSIVE update_priorities_first(_, _, _)
update_priorities_first(b, indices, priorities) ==
  IF indices = <<>> \/ priorities = <<>>
    THEN b
    ELSE LET rest == update_priorities_first(b, Tail(indices), Tail(priorities))
         IN  [rest EXCEPT !.priorities[Head(indices)] = Head(priorities)]

\* update_priorities: zip(indices, priorities), in order
RECURSIVE update_priorities(_, _, _)
update_priorities(b, indices, priorities) ==
  IF indices = <<>> \/ priorities = <<>>
    THEN b
    ELSE update_priorities([b EXCEPT !.priorities[Head(indices)] = Head(priorities)],
                           Tail(indices), Tail(priorities))

-----------------------------------------------------------------------------
(* DuelingDDQN.  The layers are one unit wide: fc, adv_fc1, value_fc1 and  *)
(* value_fc2 are single integer weights, adv_fc2 holds one weight per      *)
(* action, and value_fc2 carries the only bias.  Observations and the bias *)
(* are fixed-point, weights are whole numbers, so every activation is      *)
(* fixed-point.                                                            *)

Actions == 0 .. NumActions - 1

Weights(fc, a1, a2, v1, v2, bias) ==
  [fc |-> fc, adv_fc1 |-> a1, adv_fc2 |-> a2, value_fc1 |-> v1, value_fc2 |-> v2,
   value_fc2_bias |-> bias]

\* Parameter vectors the networks take in the model: the one torch draws at
\* construction and the one a saved model holds; the optimizer moves the
\* eval network between them.
InitWeights   == Weights(1, 1, [a \in Actions |-> IF a = 0 THEN 1 ELSE 0], 1, 1, One)
LoadedWeights == Weights(1, 1, [a \in Actions |-> IF a = 1 THEN 2 ELSE 0], 1, 0, 0)
WeightSet == {InitWeights, LoadedWeights}

relu(x) == IF x > 0 THEN x ELSE 0

\* forward, line 199
feature(w, o) == w.fc * o

\* forward, line 200, one row
advantage(w, o) ==
  [a \in Actions |-> w.adv_fc2[a] * relu(w.adv_fc1 * relu(feature(w, o)))]

\* forward, line 201, one row
value(w, o) ==
  w.value_fc2 * relu(w.value_fc1 * relu(feature(w, o))) + w.value_fc2_bias

\* forward on a batch (a sequence of observations): advantage.mean() is the
\* mean over every entry of the [N, A] advantage tensor
forward(w, observation) ==
  LET N == Len(observation)
      adv == [n \in 1 .. N |-> advantage(w, observation[n])]
      mean == SumSeq([n \in 1 .. N |-> SumOver(adv[n], Actions)]) \div (N * NumActions)
  IN  [n \in 1 .. N |->
        [a \in Actions |-> adv[n][a] + value(w, observation[n]) - mean]]

\* forward, tabulated once over the batches of observations train hands it
Observations == {0, One}

ObservationBatches == UNION {[1 .. n -> Observations] : n \in 1 .. BatchSize}

forward_table ==
  [w \in WeightSet |-> [observation \in ObservationBatches |-> forward(w, observation)]]

-----------------------------------------------------------------------------
(* PERD3QNAgent *)

Abs(x) == IF x < 0 THEN 0 - x ELSE x

\* act, line 207: the arg-max action of a single observation, first index on ties
greedy(w, o) ==
  LET q_value == forward(w, <<o>>)[1]
  IN  MinOf({a \in Actions : \A a2 \in Actions : q_value[a2] <= q_value[a]})

\* act: the actions it may return when random.random() yields u
act(w, o, eps, u) == IF u > eps THEN {greedy(w, o)} ELSE Actions

\* get_action, line 85: epsilon * decay, rounded to the nearest unit
decayed(eps) == (eps * Decay + One \div 2) \div One

\* a get_action that decays on every call in training mode
get_action_every_call(tr, eps, n, e) ==
  IF tr
    THEN [epsilon |-> IF eps > EpsilonMin THEN decayed(eps) ELSE eps,
          n_epi |-> IF e > n THEN e ELSE n]
    ELSE [epsilon |-> eps, n_epi |-> n]

\* get_action, lines 82-86: the new epsilon and n_epi
get_action(tr, eps, n, e) ==
  IF tr /\ e > n
    THEN [epsilon |-> IF eps > EpsilonMin THEN decayed(eps) ELSE eps, n_epi |-> e]
    ELSE [epsilon |-> eps, n_epi |-> n]

\* train, line 95 and 166: the sampled transitions
samples(b, indices) == [k \in 1 .. Len(indices) |-> b.memory[indices[k] + 1]]

\* train, lines 103 and 106: the eval network's value of the taken action
q_value(ev, batch) ==
  LET q_values == forward_table[ev][[k \in 1 .. Len(batch) |-> batch[k].observation]]
  IN  [k \in 1 .. Len(batch) |-> q_values[k][batch[k].action]]

\* train, lines 104-105: the target network's best next value
next_q_value(tg, batch) ==
  LET next_q_values == forward_table[tg][[k \in 1 .. Len(batch) |-> batch[k].next_observation]]
  IN  [k \in 1 .. Len(batch) |-> MaxOf({next_q_values[k][a] : a \in Actions})]

\* train, line 107: the bootstrap target
expected_q_value(tg, batch) ==
  LET nq == next_q_value(tg, batch)
  IN  [k \in 1 .. Len(batch) |->
        batch[k].reward
          + (Gamma * (IF batch[k].done THEN 0 ELSE 1) * nq[k]) \div One]

\* train, line 110: the priorities written back
new_priorities(ev, tg, batch) ==
  LET nq == next_q_value(tg, batch)
      q == q_value(ev, batch)
  IN  [k \in 1 .. Len(batch) |-> Abs(nq[k] - q[k])]

\* train, lines 113-115: one Adam step on the eval network.  The step's
\* result depends on the loss gradient and the optimizer's moments: any
\* parameter vector, the current one included.
optimizer_step(ev) == WeightSet

\* a train that rewrites the priority of every occupied slot
train_reprioritize_all(b, ev, tg) ==
  UNION {
    IF s.raised
      THEN {[buffer |-> b, eval_net |-> ev, raised |-> TRUE, indices |-> <<>>,
             priorities |-> <<>>, log |-> <<"sample">>]}
      ELSE LET batch == samples(s.buffer, s.indices)
               priorities == new_priorities(ev, tg, batch)
               all == [k \in 1 .. Len(s.buffer.memory) |-> k - 1]
           IN  {[buffer |-> update_priorities(s.buffer, all,
                                              [k \in 1 .. Len(all) |-> priorities[1]]),
                 eval_net |-> w, raised |-> FALSE, indices |-> s.indices,
                 priorities |-> priorities,
                 log |-> <<"sample", "update_priorities", "step">>] :
                  w \in optimizer_step(ev)}
    : s \in sample(b, BatchSize) }

\* train: the set of its outcomes.  A raising sample ends the call before
\* anything is written.
train(b, ev, tg) ==
  UNION {
    IF s.raised
      THEN {[buffer |-> b, eval_net |-> ev, raised |-> TRUE, indices |-> <<>>,
             priorities |-> <<>>, log |-> <<"sample">>]}
      ELSE LET batch == samples(s.buffer, s.indices)
               priorities == new_priorities(ev, tg, batch)
           IN  {[buffer |-> update_priorities(s.buffer, s.indices, priorities),
                 eval_net |-> w, raised |-> FALSE, indices |-> s.indices,
                 priorities |-> priorities,
                 log |-> <<"sample", "update_priorities", "step">>] :
                  w \in optimizer_step(ev)}
    : s \in sample(b, BatchSize) }

\* memorize
memorize(b, t) == store(b, t)

\* a learn that trains and syncs whatever the episode index
learn_ungated(b, ev, tg, age, dead, t, e) ==
  LET b1 == memorize(b, t)
      stored == [buffer |-> b1, eval_net |-> ev, target_net |-> tg, raised |-> FALSE,
                 indices |-> <<>>, priorities |-> <<>>, log |-> <<"memorize">>]
      sync(o) == IF e % SoftUpdateFreq = 0
                   THEN [o EXCEPT !.target_net = o.eval_net,
                                  !.log = Append(o.log, "load_state_dict")]
                   ELSE o
  IN  IF age % TrainFreq = 0 \/ dead
        THEN { IF r.raised
                 THEN [stored EXCEPT !.raised = TRUE, !.log = stored.log \o r.log]
                 ELSE sync([stored EXCEPT !.buffer = r.buffer,
                                          !.eval_net = r.eval_net,
                                          !.indices = r.indices,
                                          !.priorities = r.priorities,
                                          !.log = stored.log \o r.log])
               : r \in train(b1, ev, tg) }
        ELSE {sync(stored)}

\* a learn that syncs the target before it trains
learn_sync_first(b, ev, tg, age, dead, t, e) ==
  LET b1 == memorize(b, t)
      tg1 == IF e % SoftUpdateFreq = 0 THEN ev ELSE tg
      stored == [buffer |-> b1, eval_net |-> ev, target_net |-> tg, raised |-> FALSE,
                 indices |-> <<>>, priorities |-> <<>>, log |-> <<"memorize">>]
      synced == IF e % SoftUpdateFreq = 0
                  THEN [stored EXCEPT !.target_net = ev,
                                      !.log = Append(stored.log, "load_state_dict")]
                  ELSE stored
  IN  IF e > Exploration
        THEN IF age % TrainFreq = 0 \/ dead
               THEN { IF r.raised
                        THEN [stored EXCEPT !.raised = TRUE, !.log = stored.log \o r.log]
                        ELSE [synced EXCEPT !.buffer = r.buffer,
                                            !.eval_net = r.eval_net,
                                            !.indices = r.indices,
                                            !.priorities = r.priorities,
                                            !.log = synced.log \o r.log]
                      : r \in train(b1, ev, tg1) }
               ELSE {synced}
        ELSE {stored}

\* a learn that trains before it stores the call's transition
learn_train_first(b, ev, tg, age, dead, t, e) ==
  LET started == [buffer |-> b, eval_net |-> ev, target_net |-> tg, raised |-> FALSE,
                  indices |-> <<>>, priorities |-> <<>>, log |-> <<>>]
      stored(o) == [o EXCEPT !.buffer = memorize(o.buffer, t),
                             !.log = Append(o.log, "memorize")]
      sync(o) == IF e % SoftUpdateFreq = 0
                   THEN [o EXCEPT !.target_net = o.eval_net,
                                  !.log = Append(o.log, "load_state_dict")]
                   ELSE o
  IN  IF e > Exploration
        THEN IF age % TrainFreq = 0 \/ dead
               THEN { IF r.raised
                        THEN [started EXCEPT !.raised = TRUE, !.log = r.log]
                        ELSE sync(stored([started EXCEPT !.buffer = r.buffer,
                                                         !.eval_net = r.eval_net,
                                                         !.indices = r.indices,
                                                         !.priorities = r.priorities,
                                                         !.log = r.log]))
                      : r \in train(b, ev, tg) }
               ELSE {sync(stored(started))}
        ELSE {stored(started)}

\* learn: the set of its outcomes
learn(b, ev, tg, age, dead, t, e) ==
  LET b1 == memorize(b, t)
      stored == [buffer |-> b1, eval_net |-> ev, target_net |-> tg, raised |-> FALSE,
                 indices |-> <<>>, priorities |-> <<>>, log |-> <<"memorize">>]
      sync(o) == IF e % SoftUpdateFreq = 0
                   THEN [o EXCEPT !.target_net = o.eval_net,
                                  !.log = Append(o.log, "load_state_dict")]
                   ELSE o
  IN  IF e > Exploration
        THEN IF age % TrainFreq = 0 \/ dead
               THEN { IF r.raised
                        THEN [stored EXCEPT !.raised = TRUE, !.log = stored.log \o r.log]
                        ELSE sync([stored EXCEPT !.buffer = r.buffer,
                                                 !.eval_net = r.eval_net,
                                                 !.indices = r.indices,
                                                 !.priorities = r.priorities,
                                                 !.log = stored.log \o r.log])
                      : r \in train(b1, ev, tg) }
               ELSE {sync(stored)}
        ELSE {stored}

\* an apply_gaussian_noise that leaves the noise on the target
apply_gaussian_noise_kept(ev, tg, z) == [tg EXCEPT !.fc = @ + z]

\* apply_gaussian_noise: noise z on the target's first layer, then the
\* target is loaded from the eval network
apply_gaussian_noise(ev, tg, z) ==
  LET noisy == [tg EXCEPT !.fc = @ + z]
  IN  [noisy EXCEPT !.fc = ev.fc, !.adv_fc1 = ev.adv_fc1, !.adv_fc2 = ev.adv_fc2,
                    !.value_fc1 = ev.value_fc1, !.value_fc2 = ev.value_fc2,
                    !.value_fc2_bias = ev.value_fc2_bias]

-----------------------------------------------------------------------------
(* History of the most recent call *)

NoCall ==
  [op |-> "init", t |-> NoTransition, batch_size |-> 0, indices |-> <<>>,
   priorities |-> <<>>, weights |-> <<>>, raised |-> FALSE,
   age |-> 0, dead |-> FALSE, n_epi |-> 0, log |-> <<>>]

-----------------------------------------------------------------------------
(* The buffer driven directly: store, sample and update_priorities in any  *)
(* order.                                                                  *)

PrioValues == {k * One : k \in 0 .. MaxPrio}

Store ==
  /\ nstores < MaxStores
  /\ \E t \in Transitions :
       /\ buffer' = store(buffer, t)
       /\ last' = [NoCall EXCEPT !.op = "store", !.t = t]
  /\ nstores' = nstores + 1
  /\ UNCHANGED <<eval_net, target_net, epsilon, n_epi, training>>

Sample ==
  /\ \E batch_size \in 1 .. BatchSize : \E o \in sample(buffer, batch_size) :
       /\ buffer' = o.buffer
       /\ last' = [NoCall EXCEPT !.op = "sample", !.batch_size = batch_size,
                                 !.indices = o.indices, !.weights = o.weights,
                                 !.raised = o.raised]
  /\ UNCHANGED <<eval_net, target_net, epsilon, n_epi, training, nstores>>

\* indices as train passes them: indices of occupied slots
UpdatePriorities ==
  /\ buffer.memory # <<>>
  /\ \E n \in 1 .. BatchSize :
       \E indices \in [1 .. n -> 0 .. Len(buffer.memory) - 1] :
         \E priorities \in [1 .. n -> PrioValues] :
           /\ buffer' = update_priorities(buffer, indices, priorities)
           /\ last' = [NoCall EXCEPT !.op = "update_priorities", !.indices = indices,
                                     !.priorities = priorities]
  /\ UNCHANGED <<eval_net, target_net, epsilon, n_epi, training, nstores>>

InitBuffer ==
  /\ buffer = NewBuffer
  /\ eval_net = InitWeights
  /\ target_net = InitWeights
  /\ epsilon = EpsilonInit
  /\ n_epi = 0
  /\ training = TRUE
  /\ nstores = 0
  /\ last = NoCall

NextBuffer == Store \/ Sample \/ UpdatePriorities

SpecBuffer == InitBuffer /\ [][NextBuffer]_vars

-----------------------------------------------------------------------------
(* A buffer filled by store and update_priorities and then sampled call    *)
(* after call: once sample has been called, only sample calls follow.      *)

Fill == last.op # "sample" /\ (Store \/ UpdatePriorities)

\* sample is called with transitions in the buffer
SampleStored == buffer.memory # <<>> /\ Sample

NextSampling == Fill \/ SampleStored

SpecSampling == InitBuffer /\ [][NextSampling]_vars

-----------------------------------------------------------------------------
(* The agent driven by the environment: learn and apply_gaussian_noise     *)
(* (Agent.scramble_brain) in any order, with any arguments.                *)

\* The arguments the environment passes: ages on and off the train_freq
\* cadence, episode indices on both sides of the exploration threshold and
\* on and off the soft_update_freq cadence.
Ages == {TrainFreq, TrainFreq + 1}

Episodes == 0 .. Exploration + SoftUpdateFreq

Learn ==
  /\ nstores < MaxLearns
  /\ \E age \in Ages, dead \in BOOLEAN, t \in Transitions, e \in Episodes :
       \E o \in learn(buffer, eval_net, target_net, age, dead, t, e) :
         /\ buffer' = o.buffer
         /\ eval_net' = o.eval_net
         /\ target_net' = o.target_net
         /\ last' = [NoCall EXCEPT !.op = "learn", !.t = t, !.age = age, !.dead = dead,
                                   !.n_epi = e, !.raised = o.raised, !.log = o.log,
                                   !.indices = o.indices, !.priorities = o.priorities]
  /\ nstores' = nstores + 1
  /\ UNCHANGED <<epsilon, n_epi, training>>

ApplyGaussianNoise ==
  /\ \E z \in {0 - One, One} :
       target_net' = apply_gaussian_noise(eval_net, target_net, z)
  /\ last' = [NoCall EXCEPT !.op = "apply_gaussian_noise"]
  /\ UNCHANGED <<buffer, eval_net, epsilon, n_epi, training, nstores>>

\* __init__, with and without a saved model, training or not
InitAgent ==
  /\ buffer = NewBuffer
  /\ training \in BOOLEAN
  /\ \E load_model \in BOOLEAN :
       /\ eval_net = IF load_model THEN LoadedWeights ELSE InitWeights
       /\ target_net = IF load_model /\ training THEN LoadedWeights ELSE InitWeights
  /\ epsilon = IF training THEN EpsilonInit ELSE 0
  /\ n_epi = 0
  /\ nstores = 0
  /\ last = NoCall

NextAgent == Learn \/ ApplyGaussianNoise

SpecAgent == InitAgent /\ [][NextAgent]_vars

-----------------------------------------------------------------------------
(* The epsilon schedule: get_action called over the episodes, the episode  *)
(* index moving forward by at most MaxJump, repeating or falling back.     *)

\* values of random.random(): both ends of [0, 1) and both sides of epsilon
RandomDraws(eps) == {0, eps, eps + 1, EpsOne - 1} \cap (0 .. EpsOne - 1)

GetAction ==
  /\ \E e \in (n_epi - 1 .. n_epi + MaxJump) \cap (0 .. MaxEpisode),
        o \in Observations :
       LET g == get_action(training, epsilon, n_epi, e)
       IN  /\ epsilon' = g.epsilon
           /\ n_epi' = g.n_epi
           \* the returned action changes nothing in the agent
           /\ \A u \in RandomDraws(g.epsilon) : act(eval_net, o, g.epsilon, u) \subseteq Actions
           /\ last' = [NoCall EXCEPT !.op = "get_action", !.n_epi = e]
  /\ UNCHANGED <<buffer, eval_net, target_net, training, nstores>>

NextEpsilon == GetAction

SpecEpsilon == InitAgent /\ [][NextEpsilon]_vars

-----------------------------------------------------------------------------
(* The agent's methods called one by one: memorize, train and              *)
(* apply_gaussian_noise.                                                   *)

Memorize ==
  /\ nstores < MaxStores
  /\ \E t \in Transitions :
       /\ buffer' = memorize(buffer, t)
       /\ last' = [NoCall EXCEPT !.op = "memorize", !.t = t]
  /\ nstores' = nstores + 1
  /\ UNCHANGED <<eval_net, target_net, epsilon, n_epi, training>>

\* train is called with transitions in the buffer
Train ==
  /\ buffer.memory # <<>>
  /\ \E o \in train(buffer, eval_net, target_net) :
       /\ buffer' = o.buffer
       /\ eval_net' = o.eval_net
       /\ last' = [NoCall EXCEPT !.op = "train", !.raised = o.raised, !.log = o.log,
                                 !.indices = o.indices, !.priorities = o.priorities]
  /\ UNCHANGED <<target_net, epsilon, n_epi, training, nstores>>

NextTrain == Memorize \/ Train \/ ApplyGaussianNoise

SpecTrain == InitAgent /\ [][NextTrain]_vars

-----------------------------------------------------------------------------
(* The network on its own: forward applied to a batch of observations and  *)
(* act to a single one, on the networks of a constructed agent.            *)

ForwardBatches == UNION {[1 .. n -> Observations] : n \in 1 .. MaxRows}

Forward ==
  /\ \E w \in {eval_net, target_net}, observation \in ForwardBatches :
       last' = [op |-> "forward", w |-> w, observation |-> observation,
                q_values |-> forward(w, observation)]
  /\ UNCHANGED <<buffer, eval_net, target_net, epsilon, n_epi, training, nstores>>

\* act as get_action calls it: on the eval network, with self.epsilon
Act ==
  /\ \E o \in Observations, u \in RandomDraws(epsilon) :
       \E a \in act(eval_net, o, epsilon, u) :
         last' = [op |-> "act", observation |-> o, epsilon |-> epsilon, u |-> u,
                  action |-> a]
  /\ UNCHANGED <<buffer, eval_net, target_net, epsilon, n_epi, training, nstores>>

NextNetwork == Forward \/ Act

SpecNetwork == InitAgent /\ [][NextNetwork]_vars

-----------------------------------------------------------------------------
(* Claims about the buffer *)

Occupied(b) == 0 .. Len(b.memory) - 1

\* C1: len(memory) never exceeds the capacity, and the k-th store writes its
\* transition to slot (k-1) mod Capacity (appending while under capacity,
\* overwriting the oldest slot once full) and leaves every other slot's
\* transition as it was.
C1_StoreCircular ==
  /\ [](Len(buffer.memory) <= Capacity)
  /\ [][last'.op = "store" =>
         LET slot == nstores % Capacity
         IN  /\ Len(buffer'.memory) = MinOf({Len(buffer.memory) + 1, Capacity})
             /\ slot + 1 <= Len(buffer'.memory)
             /\ buffer'.memory[slot + 1] = last'.t
             /\ \A i \in 1 .. Len(buffer.memory) :
                  i # slot + 1 => buffer'.memory[i] = buffer.memory[i]]_vars

\* C1 witness: the store after the buffer filled up replaced slot 0 and kept
\* slot 1, after a sample and a priority update had happened in between.
C1_Witness ==
  /\ last.op = "store"
  /\ nstores = Capacity + 1
  /\ Len(buffer.memory) = Capacity
  /\ buffer.memory[1] = last.t
  /\ buffer.memory[2] # last.t
  /\ buffer.beta > One
  /\ buffer.priorities[0] = 2 * One

\* C2: right after a store, the priority of the slot it wrote equals the
\* maximum priority over the occupied slots, and is 1.0 for the first store
\* into an empty buffer.
C2_NewSlotHasMaxPriority ==
  last.op = "store" =>
    LET slot == (nstores - 1) % Capacity
    IN  /\ buffer.priorities[slot] = MaxOf({buffer.priorities[i] : i \in Occupied(buffer)})
        /\ nstores = 1 => buffer.priorities[slot] = One

\* C2 witness: a store that overwrote a slot at wraparound, after priority
\* updates, and entered with a priority above 1.0 while another slot is lower.
C2_Witness ==
  /\ last.op = "store"
  /\ nstores > Capacity
  /\ buffer.priorities[(nstores - 1) % Capacity] = 2 * One
  /\ \E i \in Occupied(buffer) : buffer.priorities[i] < 2 * One

\* C3: every sample on a non-empty buffer returns exactly batch_size indices,
\* each of an occupied slot.
C3_SampleReturnsBatch ==
  (last.op = "sample" /\ buffer.memory # <<>>) =>
    /\ ~last.raised
    /\ Len(last.indices) = last.batch_size
    /\ \A k \in 1 .. Len(last.indices) : last.indices[k] \in Occupied(buffer)

\* the value update_priorities pairs last with slot i
LastPaired(indices, priorities, i) ==
  LET n == MinOf({Len(indices), Len(priorities)})
  IN  priorities[MaxOf({k \in 1 .. n : indices[k] = i})]

\* C4: update_priorities sets each given index to its paired value (the last
\* pair of a repeated index wins) and changes nothing else: no other
\* priority, no stored transition, neither pos nor beta.
C4_UpdatePrioritiesFrame ==
  [][last'.op = "update_priorities" =>
       /\ buffer'.memory = buffer.memory
       /\ buffer'.pos = buffer.pos
       /\ buffer'.beta = buffer.beta
       /\ \A i \in Slots :
            buffer'.priorities[i] =
              IF \E k \in 1 .. Len(last'.indices) : last'.indices[k] = i
                THEN LastPaired(last'.indices, last'.priorities, i)
                ELSE buffer.priorities[i]]_vars

\* C4 witness: an update that names slot 0 twice with different values, the
\* second of which stands, while slot 1 keeps a different priority.
C4_Witness ==
  /\ last.op = "update_priorities"
  /\ last.indices = <<0, 0>>
  /\ last.priorities = <<One, 2 * One>>
  /\ buffer.priorities[0] = 2 * One
  /\ Len(buffer.memory) = Capacity
  /\ buffer.priorities[1] = One

-----------------------------------------------------------------------------
(* Claims about learn and train *)

Count(q, x) == Cardinality({k \in 1 .. Len(q) : q[k] = x})

\* C5: a learn call with episode index <= exploration stores its transition
\* and does nothing else: no optimization step, no target sync, eval and
\* target weights and every priority but the written slot's unchanged,
\* whatever age, dead and the episode index modulo soft_update_freq are.
C5_LearnBelowExploration ==
  [][(last'.op = "learn" /\ last'.n_epi <= Exploration) =>
       LET slot == buffer.pos
       IN  /\ ~last'.raised
           /\ last'.log = <<"memorize">>
           /\ Len(buffer'.memory) = MinOf({Len(buffer.memory) + 1, Capacity})
           /\ buffer'.memory[slot + 1] = last'.t
           /\ \A i \in 1 .. Len(buffer.memory) :
                i # slot + 1 => buffer'.memory[i] = buffer.memory[i]
           /\ \A i \in Slots : i # slot => buffer'.priorities[i] = buffer.priorities[i]
           /\ buffer'.beta = buffer.beta
           /\ eval_net' = eval_net
           /\ target_net' = target_net]_vars

\* C5 witness: a learn below the threshold, on the sync cadence, with the
\* agent dead, while the eval network has moved away from the target and
\* the buffer holds priorities written by an earlier train.
C5_Witness ==
  /\ last.op = "learn"
  /\ last.n_epi <= Exploration
  /\ last.n_epi % SoftUpdateFreq = 0
  /\ last.dead
  /\ last.age % TrainFreq = 0
  /\ eval_net # target_net
  /\ buffer.beta > One
  /\ Len(buffer.memory) = Capacity

\* C6: a learn call with episode index > exploration stores its transition
\* first and then runs exactly one optimization step if age mod train_freq
\* = 0 or dead, and none otherwise.
C6_TrainCadence ==
  (last.op = "learn" /\ last.n_epi > Exploration) =>
    /\ Len(last.log) >= 1
    /\ last.log[1] = "memorize"
    /\ Count(last.log, "memorize") = 1
    /\ Count(last.log, "step") =
         IF last.age % TrainFreq = 0 \/ last.dead THEN 1 ELSE 0

\* C7 as claimed: every learn call with episode index mod soft_update_freq
\* = 0 leaves the target network equal to the eval network, and every other
\* learn call leaves the target network unchanged.
C7_SyncOnCadence ==
  [][(last'.op = "learn" /\ ~last'.raised) =>
       IF last'.n_epi % SoftUpdateFreq = 0
         THEN target_net' = eval_net'
         ELSE target_net' = target_net]_vars

\* C7 as amended: a learn call that returns, with episode index >
\* exploration and episode index mod soft_update_freq = 0, leaves the
\* target network equal to the eval network as it is after the call's own
\* optimization step; every other learn call leaves the target unchanged.
C7_SyncAboveExploration ==
  [][last'.op = "learn" =>
       IF ~last'.raised /\ last'.n_epi > Exploration
            /\ last'.n_epi % SoftUpdateFreq = 0
         THEN target_net' = eval_net'
         ELSE target_net' = target_net]_vars

\* C7 witness: a learn call that trained and synced, whose optimization step
\* changed the eval network, so that the target now holds the new weights.
C7_Witness ==
  /\ last.op = "learn"
  /\ last.log = <<"memorize", "sample", "update_priorities", "step", "load_state_dict">>
  /\ last.n_epi > Exploration
  /\ last.n_epi % SoftUpdateFreq = 0
  /\ target_net = eval_net
  /\ eval_net = LoadedWeights
  /\ training
  /\ nstores = 1

\* C10: the priority train writes back for each sampled index is
\* |target - q_value|, with target the bootstrap target reward + gamma *
\* (1 - done) * max_a target_net(next_observation)[a] and q_value the eval
\* network's value of the taken action.
C10_PriorityIsTDError ==
  [][(last'.op = "learn" /\ Count(last'.log, "update_priorities") = 1) =>
       LET batch == samples(buffer', last'.indices)
           target == expected_q_value(target_net, batch)
           q == q_value(eval_net, batch)
       IN  \A k \in 1 .. Len(last'.indices) :
             last'.priorities[k] = Abs(target[k] - q[k])]_vars

-----------------------------------------------------------------------------
(* Claims about the epsilon schedule *)

\* C8: in training mode epsilon never increases and never falls below
\* epsilon_min.
C8_EpsilonFloored ==
  /\ [](training => epsilon >= EpsilonMin)
  /\ [][training => epsilon' <= epsilon]_vars

\* C9 as claimed: in training mode a get_action call whose episode index
\* exceeds n_epi multiplies epsilon by decay once and sets n_epi to that
\* index; a call with the same or a smaller index changes neither; so n_epi
\* never decreases and is the largest index seen.
C9_DecayEveryNewEpisode ==
  [][(last'.op = "get_action" /\ training) =>
       /\ IF last'.n_epi > n_epi
            THEN epsilon' = decayed(epsilon) /\ n_epi' = last'.n_epi
            ELSE epsilon' = epsilon /\ n_epi' = n_epi
       /\ n_epi' = MaxOf({n_epi, last'.n_epi})]_vars

\* C9 as amended: in training mode a get_action call whose episode index
\* exceeds n_epi sets n_epi to that index and multiplies epsilon by decay
\* once if epsilon > epsilon_min, leaving epsilon unchanged otherwise; a call
\* with the same or a smaller index changes neither; so n_epi never
\* decreases and is the largest index seen.
C9_DecayOncePerEpisode ==
  [][(last'.op = "get_action" /\ training) =>
       /\ IF last'.n_epi > n_epi
            THEN /\ epsilon' = IF epsilon > EpsilonMin THEN decayed(epsilon) ELSE epsilon
                 /\ n_epi' = last'.n_epi
            ELSE epsilon' = epsilon /\ n_epi' = n_epi
       /\ n_epi' = MaxOf({n_epi, last'.n_epi})]_vars

\* C9 witness: two episode transitions decayed epsilon twice, and a later
\* call with a smaller episode index left epsilon and n_epi as they were.
C9_Witness ==
  /\ training
  /\ last.op = "get_action"
  /\ n_epi = 2 * MaxJump
  /\ last.n_epi < n_epi
  /\ epsilon = decayed(decayed(EpsilonInit))

-----------------------------------------------------------------------------
(* Claims about the network *)

\* C11: for every batch, forward returns for row n and action a
\* advantage[n,a] + value[n] - (sum over a' of advantage[n,a']) / A: the
\* advantage mean is taken per row, over the action axis.
C11_ForwardPerRowMean ==
  last.op = "forward" =>
    \A n \in 1 .. Len(last.observation) : \A a \in Actions :
      LET adv == advantage(last.w, last.observation[n])
      IN  last.q_values[n][a] =
            adv[a] + value(last.w, last.observation[n])
              - SumOver(adv, Actions) \div NumActions

\* C12: with epsilon = 0, act returns the arg-max action of forward (first
\* index on ties) whatever random.random() yields in [0, 1).
C12_GreedyAtZeroEpsilon ==
  (last.op = "act" /\ last.epsilon = 0) =>
    last.action = greedy(eval_net, last.observation)

-----------------------------------------------------------------------------
(* Claims about apply_gaussian_noise and the training flag *)

\* C13 as stated: apply_gaussian_noise leaves the target network's
\* parameters as they were before the call, also when the target lags the
\* eval network; eval network and buffer are unchanged.
C13_NoiseKeepsTarget ==
  [][last'.op = "apply_gaussian_noise" =>
       /\ target_net' = target_net
       /\ eval_net' = eval_net
       /\ buffer' = buffer]_vars

\* C13, amended: apply_gaussian_noise leaves the target network equal to the
\* eval network (the noise is overwritten by the copy), so a lagging target
\* is synced and only a target already equal to the eval network keeps its
\* parameters; eval network, buffer, epsilon and n_epi are unchanged.
C13_NoiseSyncsTarget ==
  [][last'.op = "apply_gaussian_noise" =>
       /\ target_net' = eval_net
       /\ (target_net = eval_net => target_net' = target_net)
       /\ eval_net' = eval_net
       /\ buffer' = buffer
       /\ epsilon' = epsilon /\ n_epi' = n_epi]_vars

\* An agent built for inference from a saved model, whose target network was
\* left at its initial parameters, has had its target moved to the loaded
\* parameters by apply_gaussian_noise alone.
C13_Witness ==
  /\ last.op = "apply_gaussian_noise"
  /\ ~training
  /\ nstores = 0
  /\ eval_net = LoadedWeights
  /\ target_net = LoadedWeights

\* C14: with training = False no optimization step is performed and the
\* eval network's weights never change, whatever calls are made.
C14_NoLearningWhenNotTraining ==
  [][~training =>
       /\ eval_net' = eval_net
       /\ (last'.op = "learn" => Count(last'.log, "step") = 0)]_vars

-----------------------------------------------------------------------------
(* Claims about train *)

\* C15: a train call changes only the eval network (at most one optimizer
\* step) and the priorities at the sampled indices (and beta); the target
\* network, the stored transitions, the write pointer, epsilon and n_epi are
\* unchanged.  Hence the target network changes only at a sync in learn or
\* in apply_gaussian_noise.
C15_TrainFrame ==
  [][/\ last'.op = "train" =>
          /\ target_net' = target_net
          /\ buffer'.memory = buffer.memory
          /\ buffer'.pos = buffer.pos
          /\ epsilon' = epsilon /\ n_epi' = n_epi
          /\ \A i \in Slots :
               Count(last'.indices, i) = 0 => buffer'.priorities[i] = buffer.priorities[i]
          /\ Count(last'.log, "step") <= 1
          /\ eval_net' # eval_net => Count(last'.log, "step") = 1
     /\ target_net' # target_net =>
          \/ last'.op = "apply_gaussian_noise"
          \/ last'.op = "learn" /\ Count(last'.log, "load_state_dict") = 1]_vars

\* A train has moved the eval network away from the target and rewritten the
\* priority of slot 0 only: slot 1 keeps the priority its store gave it.
C15_Witness ==
  /\ last.op = "train"
  /\ Count(last.log, "step") = 1
  /\ eval_net # target_net
  /\ Len(buffer.memory) = Capacity
  /\ Count(last.indices, 1) = 0
  /\ buffer.priorities[1] # buffer.priorities[0]
  /\ buffer.beta > One

-----------------------------------------------------------------------------
(* Claims about beta and the importance weights *)

\* C16: over a sequence of sample calls beta is changed by the first call
\* only: the first call raises beta past 1, to beta + beta_increment, and
\* computes its weights with the beta it found; every later call leaves beta
\* unchanged.
C16_BetaRaisedByFirstSampleOnly ==
  [][last'.op = "sample" =>
       IF last.op # "sample"
         THEN /\ buffer'.beta = buffer.beta + BetaIncrement
              /\ buffer'.beta > One
              /\ last'.weights =
                   weights([i \in probs_support(buffer) |-> raw_weight(buffer, i)],
                           last'.indices)
         ELSE buffer'.beta = buffer.beta]_vars

\* C17: whenever sample succeeds on a non-empty buffer, every returned
\* weight lies in (0, 1] and the largest weight of the batch is exactly 1.0,
\* on the first call and on later calls alike.
C17_WeightsNormalized ==
  (last.op = "sample" /\ ~last.raised /\ buffer.memory # <<>>) =>
    /\ \A k \in 1 .. Len(last.weights) : last.weights[k] \in {"one", "below_one"}
    /\ \E k \in 1 .. Len(last.weights) : last.weights[k] = "one"

-----------------------------------------------------------------------------
(* Claims about the buffer under learn *)

\* C18: in any sequence of learn calls on a fresh agent, sample is never
\* invoked on an empty buffer: a learn call that trains has stored its
\* transition first, so len(memory) >= 1 at the sample, also when the very
\* first learn call trains.
C18_SampleAfterStore ==
  (last.op = "learn" /\ Count(last.log, "sample") > 0) =>
    /\ last.log[1] = "memorize"
    /\ last.log[2] = "sample"
    /\ Count(last.log, "sample") = 1
    /\ Len(buffer.memory) >= 1
    /\ Len(buffer.memory) = MinOf({nstores, Capacity})

\* The very first learn call trains, on the one transition it has just stored.
C18_Witness ==
  /\ nstores = 1
  /\ last.op = "learn"
  /\ Count(last.log, "sample") = 1
  /\ ~last.raised
  /\ Len(buffer.memory) = 1
  /\ last.indices = <<0, 0>>

-----------------------------------------------------------------------------
(* Claims about the alignment of memory and priorities *)

\* C19: the memory and priority arrays stay aligned.  After k store calls
\* len(memory) = min(k, capacity) and pos = k mod capacity; every slot at or
\* past len(memory) has priority 0; and every store writes the transition
\* and its priority at the same slot, which is pos (the appended index
\* len(memory) while under capacity).
C19_MemoryPrioritiesAligned ==
  /\ [](/\ Len(buffer.memory) = MinOf({nstores, Capacity})
        /\ buffer.pos = nstores % Capacity
        /\ \A i \in Slots : i >= Len(buffer.memory) => buffer.priorities[i] = 0)
  /\ [][last'.op = "store" =>
          LET slot == IF Len(buffer.memory) < Capacity
                        THEN Len(buffer.memory) ELSE buffer.pos
          IN  /\ slot = buffer.pos
              /\ buffer'.memory[slot + 1] = last'.t
              /\ \A i \in 1 .. Len(buffer.memory) :
                   i # slot + 1 => buffer'.memory[i] = buffer.memory[i]
              /\ buffer'.priorities =
                   [buffer.priorities EXCEPT ![slot] = max_prior(buffer)]]_vars

\* The buffer has wrapped: a store past capacity has overwritten slot 0 and
\* given it a positive priority, and the pointer stands on slot 1.
C19_Witness ==
  /\ last.op = "store"
  /\ nstores = Capacity + 1
  /\ Len(buffer.memory) = Capacity
  /\ buffer.pos = 1
  /\ buffer.memory[1] = last.t
  /\ buffer.memory[2] # last.t
  /\ buffer.priorities[0] > 0

\* C20: at every sample reached through learn, some occupied slot has a
\* strictly positive priority, so that the sum of priority^alpha is not zero
\* and the sampling probabilities are a distribution: the sample does not
\* divide by zero (np.random.choice does not raise), whatever TD errors were
\* written back before.
C20_SampleHasPositivePriority ==
  (last.op = "learn" /\ Count(last.log, "sample") > 0) =>
    ~last.raised

====
